---- MODULE Spec2Model ----
(***************************************************************************)
(* Model of the local SQLite cache of the PNS analysis project             *)
(* (dao/sqlite_client.py): one table with the composite primary key        *)
(* (origem, identificador_unidade), two audit columns, and data columns    *)
(* added on demand.  Every handler of the module is one action; a handler  *)
(* that opens several connections is modelled with all of them.  The       *)
(* mapping registry (mapping.py) is a second state machine, MapSpec, whose *)
(* steps are the calls of its lookup functions.                            *)
(***************************************************************************)
EXTENDS Integers, Sequences, FiniteSets, TLC

(***************************************************************************)
(* Bounds of the model.                                                    *)
(***************************************************************************)
\* largest value of the clock (CURRENT_TIMESTAMP)
MaxClock == 1
\* number of handler calls in one run
MaxOps == 2

NULL == "NULL"

VARIABLES
    schema,   \* PRAGMA table_info: sequence of [name, type]; <<>> = no table
    rows,     \* the stored rows in rowid order, each a function column -> value
    now,      \* the clock read by CURRENT_TIMESTAMP
    last,     \* the last handler call: its name, arguments and outcome
    conns,    \* what the last handler call did on the connections it opened
    nops,     \* number of handler calls so far
    ticked,   \* the row of the last upsert before which the clock advanced
    var_map,  \* the mapping registry in use (the module global VAR_MAP)
    reg,      \* the last call of a registry function: arguments and outcome
    prev      \* the call of a registry function before it

vars == <<schema, rows, now, last, conns, nops, ticked, var_map, reg, prev>>

(***************************************************************************)
(* Sequence helpers.                                                       *)
(***************************************************************************)
Range(s) == {s[i] : i \in 1..Len(s)}

(***************************************************************************)
(* String helpers: str.lower(), str.endswith(), the substring test `in`.   *)
(***************************************************************************)
LowerChar(c) ==
    CASE c = "A" -> "a" [] c = "B" -> "b" [] c = "C" -> "c" [] c = "D" -> "d"
      [] c = "E" -> "e" [] c = "F" -> "f" [] c = "G" -> "g" [] c = "H" -> "h"
      [] c = "I" -> "i" [] c = "J" -> "j" [] c = "K" -> "k" [] c = "L" -> "l"
      [] c = "M" -> "m" [] c = "N" -> "n" [] c = "O" -> "o" [] c = "P" -> "p"
      [] c = "Q" -> "q" [] c = "R" -> "r" [] c = "S" -> "s" [] c = "T" -> "t"
      [] c = "U" -> "u" [] c = "V" -> "v" [] c = "W" -> "w" [] c = "X" -> "x"
      [] c = "Y" -> "y" [] c = "Z" -> "z" [] OTHER -> c

RECURSIVE LowerFrom(_, _)
LowerFrom(s, i) ==
    IF i > Len(s) THEN "" ELSE LowerChar(SubSeq(s, i, i)) \o LowerFrom(s, i + 1)

Lower(s) == LowerFrom(s, 1)

EndsWith(s, suffix) ==
    /\ Len(suffix) <= Len(s)
    /\ SubSeq(s, Len(s) - Len(suffix) + 1, Len(s)) = suffix

Contains(s, kw) ==
    \E i \in 1..(Len(s) - Len(kw) + 1) : SubSeq(s, i, i + Len(kw) - 1) = kw

(***************************************************************************)
(* get_connection: commit on normal exit, rollback when the body raised,   *)
(* close in both cases.  pre is the database at connect time, post the     *)
(* database the body left, raised tells whether the body raised.  The      *)
(* result is the database after the block and the events on the            *)
(* connection, in order.                                                   *)
(***************************************************************************)
\* a get_connection that commits whatever the body wrote
get_connection_NoRollback(pre, post, raised) ==
    [db |-> post, events |-> <<"connect", "commit", "close">>]

\* a get_connection without the finally clause: the connection is closed
\* only when the body returned
get_connection_NoFinally(pre, post, raised) ==
    IF raised
    THEN [db |-> pre, events |-> <<"connect", "rollback">>]
    ELSE [db |-> post, events |-> <<"connect", "commit", "close">>]

get_connection(pre, post, raised) ==
    IF raised
    THEN [db |-> pre, events |-> <<"connect", "rollback", "close">>]
    ELSE [db |-> post, events |-> <<"connect", "commit", "close">>]

\* the connection of a query (SELECT, PRAGMA): nothing is written
Query(db) == get_connection(db, db, FALSE).events

(***************************************************************************)
(* table_exists, get_table_columns                                         *)
(***************************************************************************)
table_exists(s) == Len(s) > 0

get_table_columns(s) == [i \in 1..Len(s) |-> s[i].name]

(***************************************************************************)
(* ensure_table_exists.  fault = 1: the CREATE TABLE statement fails.      *)
(***************************************************************************)
CreateTable ==
    << [name |-> "origem", type |-> "TEXT"],
       [name |-> "identificador_unidade", type |-> "TEXT"],
       [name |-> "created_at", type |-> "DATETIME"],
       [name |-> "updated_at", type |-> "DATETIME"] >>

ensure_table_exists(db, fault) ==
    IF table_exists(db.schema)
    THEN [db |-> db, result |-> "ok", conns |-> Query(db)]
    ELSE LET raised == (fault = 1)
             post == [schema |-> CreateTable, rows |-> << >>]
             c == get_connection(db, post, raised)
         IN  [db |-> c.db,
              result |-> IF raised THEN "OperationalError" ELSE "ok",
              conns |-> Query(db) \o c.events]

(***************************************************************************)
(* add_column_if_not_exists.  ALTER TABLE ADD COLUMN gives the new column  *)
(* the value NULL in every stored row; it fails when the table is missing  *)
(* or when the storage fault hits it (fault = 1).                          *)
(***************************************************************************)
\* the new column is given a default other than NULL (DEFAULT '')
AlterTableAddColumn_DefaultEmpty(db, column_name, column_type) ==
    [schema |-> Append(db.schema, [name |-> column_name, type |-> column_type]),
     rows |-> [i \in 1..Len(db.rows) |->
                 [c \in DOMAIN db.rows[i] \cup {column_name} |->
                     IF c \in DOMAIN db.rows[i] THEN db.rows[i][c] ELSE ""]]]

AlterTableAddColumn(db, column_name, column_type) ==
    [schema |-> Append(db.schema, [name |-> column_name, type |-> column_type]),
     rows |-> [i \in 1..Len(db.rows) |->
                 [c \in DOMAIN db.rows[i] \cup {column_name} |->
                     IF c \in DOMAIN db.rows[i] THEN db.rows[i][c] ELSE NULL]]]

\* the existence check is skipped and an existing column is retyped
add_column_if_not_exists_Retype(db, column_name, column_type, fault) ==
    IF ~table_exists(db.schema) \/ fault = 1
    THEN [db |-> db, result |-> "OperationalError", writes |-> 1,
          conns |-> get_connection(db, db, TRUE).events]
    ELSE IF column_name \in Range(get_table_columns(db.schema))
    THEN [db |-> [db EXCEPT !.schema =
                     [i \in 1..Len(@) |->
                         IF @[i].name = column_name
                         THEN [name |-> column_name, type |-> column_type]
                         ELSE @[i]]],
          result |-> "ok", writes |-> 1, conns |-> Query(db)]
    ELSE [db |-> AlterTableAddColumn(db, column_name, column_type),
          result |-> "ok", writes |-> 1, conns |-> Query(db)]

\* the existence check is skipped and the column is added again
add_column_if_not_exists_NoCheck(db, column_name, column_type, fault) ==
    IF ~table_exists(db.schema) \/ fault = 1
    THEN [db |-> db, result |-> "OperationalError", writes |-> 1,
          conns |-> get_connection(db, db, TRUE).events]
    ELSE [db |-> AlterTableAddColumn(db, column_name, column_type),
          result |-> "ok", writes |-> 1, conns |-> Query(db)]

add_column_if_not_exists(db, column_name, column_type, fault) ==
    IF column_name \in Range(get_table_columns(db.schema))
    THEN [db |-> db, result |-> "ok", writes |-> 0, conns |-> Query(db)]
    ELSE LET raised == (~table_exists(db.schema)) \/ fault = 1
             post == AlterTableAddColumn(db, column_name, column_type)
             c == get_connection(db, post, raised)
         IN  [db |-> c.db,
              result |-> IF raised THEN "OperationalError" ELSE "ok",
              writes |-> 1,
              conns |-> Query(db) \o c.events]

(***************************************************************************)
(* ensure_columns_exist: type inference from the column name.              *)
(***************************************************************************)
ReservedColumns == {"origem", "identificador_unidade", "created_at", "updated_at"}

\* the keywords are looked for in the name as given, not in its lower case
InferType_NoLower(col_name) ==
    IF EndsWith(col_name, "_at") \/ col_name \in {"created_at", "updated_at"}
    THEN "DATETIME"
    ELSE IF \E kw \in {"idade", "anos", "filhos", "count"} : Contains(col_name, kw)
    THEN "INTEGER"
    ELSE IF \E kw \in {"peso", "renda", "per_capita"} : Contains(col_name, kw)
    THEN "REAL"
    ELSE "TEXT"

\* no inference: every new column is TEXT
InferType_AlwaysText(col_name) == "TEXT"

InferType(col_name) ==
    IF EndsWith(col_name, "_at") \/ col_name \in {"created_at", "updated_at"}
    THEN "DATETIME"
    ELSE IF \E kw \in {"idade", "anos", "filhos", "count"} :
               Contains(Lower(col_name), kw)
    THEN "INTEGER"
    ELSE IF \E kw \in {"peso", "renda", "per_capita"} :
               Contains(Lower(col_name), kw)
    THEN "REAL"
    ELSE "TEXT"

\* the loop of ensure_columns_exist from position i on; existing is the
\* column list read once before the loop, fault counts down the write
\* statements still to succeed before the storage fault (0 = no fault)
RECURSIVE EnsureLoop(_, _, _, _, _)
EnsureLoop(db, column_names, i, existing, fault) ==
    IF i > Len(column_names)
    THEN [db |-> db, result |-> "ok", fault |-> fault, conns |-> << >>]
    ELSE LET col_name == column_names[i]
         IN  IF col_name \in existing \/ col_name \in ReservedColumns
             THEN EnsureLoop(db, column_names, i + 1, existing, fault)
             ELSE LET r == add_column_if_not_exists(db, col_name,
                                                    InferType(col_name), fault)
                      left == IF fault > 0 THEN fault - r.writes ELSE 0
                  IN  IF r.result # "ok"
                      THEN [db |-> r.db, result |-> r.result, fault |-> 0,
                            conns |-> r.conns]
                      ELSE LET rest == EnsureLoop(r.db, column_names, i + 1,
                                                  existing, left)
                           IN  [rest EXCEPT !.conns = r.conns \o @]

ensure_columns_exist(db, column_names, fault) ==
    LET e == EnsureLoop(db, column_names, 1,
                        Range(get_table_columns(db.schema)), fault)
    IN  [e EXCEPT !.conns = Query(db) \o @]

(***************************************************************************)
(* upsert_rows.  df is the input DataFrame: df.columns is the list of      *)
(* column names, df.rows the list of rows, each a function from the        *)
(* column names to values.                                                 *)
(***************************************************************************)
\* the df.empty test is missing
DfEmpty_Never(df) == FALSE

DfEmpty(df) == Len(df.rows) = 0 \/ Len(df.columns) = 0

\* pk_columns = None, the default of the parameter
None == <<"None">>

DefaultPk == <<"origem", "identificador_unidade">>

MissingPk(df, pk_columns) ==
    SelectSeq(pk_columns, LAMBDA col : col \notin Range(df.columns))

\* created_at and updated_at of the DataFrame are not left out
ColumnsToInsert_All(df) == df.columns

ColumnsToInsert(df) ==
    SelectSeq(df.columns, LAMBDA col : col \notin {"created_at", "updated_at"})

UpdateColumns(columns_to_insert, pk_columns) ==
    SelectSeq(columns_to_insert, LAMBDA col : col \notin Range(pk_columns))

\* the value the INSERT gives column c: the bound parameter when c is one
\* of the listed columns, CURRENT_TIMESTAMP for the two audit columns, the
\* column default (NULL) otherwise
Excluded(c, vals, columns_to_insert, t) ==
    IF c \in {"created_at", "updated_at"} THEN t
    ELSE IF c \in Range(columns_to_insert) THEN vals[c]
    ELSE NULL

\* NOT NULL constraints of the table
NotNullViolated(vals, columns_to_insert, t) ==
    \E c \in {"origem", "identificador_unidade"} :
        Excluded(c, vals, columns_to_insert, t) = NULL

\* no conflict is ever detected
ConflictRows_Never(stored, vals, columns_to_insert, t) == {}

\* a conflict makes the update hit every stored row (UPDATE without WHERE)
ConflictRows_Whole(stored, vals, columns_to_insert, t) ==
    IF \E i \in 1..Len(stored) :
          /\ stored[i]["origem"] = Excluded("origem", vals, columns_to_insert, t)
          /\ stored[i]["identificador_unidade"] =
                 Excluded("identificador_unidade", vals, columns_to_insert, t)
    THEN 1..Len(stored)
    ELSE {}

\* ON CONFLICT(origem, identificador_unidade): positions of the stored rows
\* with the key of the row being inserted
ConflictRows(stored, vals, columns_to_insert, t) ==
    {i \in 1..Len(stored) :
        /\ stored[i]["origem"] = Excluded("origem", vals, columns_to_insert, t)
        /\ stored[i]["identificador_unidade"] =
               Excluded("identificador_unidade", vals, columns_to_insert, t)}

\* the update also sets created_at = CURRENT_TIMESTAMP
DoUpdateSet_ResetCreatedAt(old, vals, update_columns, t) ==
    [c \in DOMAIN old |->
        IF c \in Range(update_columns) THEN vals[c]
        ELSE IF c \in {"created_at", "updated_at"} THEN t
        ELSE old[c]]

\* the stored row is replaced (INSERT OR REPLACE): columns the batch does
\* not supply fall back to NULL
DoUpdateSet_ReplaceRow(old, vals, update_columns, t) ==
    [c \in DOMAIN old |->
        IF c \in Range(update_columns) THEN vals[c]
        ELSE IF c = "updated_at" THEN t
        ELSE IF c \in {"origem", "identificador_unidade", "created_at"} THEN old[c]
        ELSE NULL]

\* the update forgets updated_at = CURRENT_TIMESTAMP
DoUpdateSet_KeepUpdatedAt(old, vals, update_columns, t) ==
    [c \in DOMAIN old |->
        IF c \in Range(update_columns) THEN vals[c] ELSE old[c]]

\* ON CONFLICT DO NOTHING: the stored row is kept as it is
DoUpdateSet_DoNothing(old, vals, update_columns, t) == old

\* DO UPDATE SET col = excluded.col, ..., updated_at = CURRENT_TIMESTAMP
DoUpdateSet(old, vals, update_columns, t) ==
    [c \in DOMAIN old |->
        IF c \in Range(update_columns) THEN vals[c]
        ELSE IF c = "updated_at" THEN t
        ELSE old[c]]

\* INSERT INTO t (columns, created_at, updated_at) VALUES (?, ..., now, now)
InsertRow(schemaNames, vals, columns_to_insert, t) ==
    [c \in schemaNames |-> Excluded(c, vals, columns_to_insert, t)]

\* one execution of the statement, at time t
ExecuteQuery(db, vals, columns_to_insert, update_columns, t) ==
    IF ~table_exists(db.schema)
    THEN [db |-> db, result |-> "OperationalError"]
    ELSE IF NotNullViolated(vals, columns_to_insert, t)
    THEN [db |-> db, result |-> "IntegrityError"]
    ELSE LET hit == ConflictRows(db.rows, vals, columns_to_insert, t)
             names == Range(get_table_columns(db.schema))
         IN  IF hit = {}
             THEN [db |-> [db EXCEPT !.rows =
                              Append(@, InsertRow(names, vals,
                                                  columns_to_insert, t))],
                   result |-> "ok"]
             ELSE [db |-> [db EXCEPT !.rows =
                              [i \in 1..Len(@) |->
                                  IF i \in hit
                                  THEN DoUpdateSet(@[i], vals, update_columns, t)
                                  ELSE @[i]]],
                   result |-> "ok"]

\* cursor.executemany: the statement once per row, in order; the clock
\* advances by one just before row tick is written (tick = 0: not at all)
RECURSIVE ExecuteMany(_, _, _, _, _, _, _, _)
ExecuteMany(db, values, i, columns_to_insert, update_columns, fault, clock, tick) ==
    IF i > Len(values)
    THEN [db |-> db, result |-> "ok", now |-> clock]
    ELSE LET t == IF tick = i THEN clock + 1 ELSE clock
             r == ExecuteQuery(db, values[i], columns_to_insert, update_columns, t)
         IN  IF fault = 1
             THEN [db |-> db, result |-> "OperationalError", now |-> t]
             ELSE IF r.result # "ok"
             THEN [db |-> r.db, result |-> r.result, now |-> t]
             ELSE ExecuteMany(r.db, values, i + 1, columns_to_insert,
                              update_columns,
                              IF fault > 0 THEN fault - 1 ELSE 0, t, tick)

upsert_rows(db, df, pk_arg, fault, clock, tick) ==
    IF DfEmpty(df)
    THEN [db |-> db, result |-> "ok", now |-> clock, conns |-> << >>]
    ELSE LET pk_columns == IF pk_arg = None THEN DefaultPk ELSE pk_arg
         IN
         IF MissingPk(df, pk_columns) # << >>
         THEN [db |-> db, result |-> "ValueError", now |-> clock, conns |-> << >>]
         ELSE LET e == ensure_columns_exist(db, df.columns, fault)
              IN
              IF e.result # "ok"
              THEN [db |-> e.db, result |-> e.result, now |-> clock,
                    conns |-> e.conns]
              ELSE LET columns_to_insert == ColumnsToInsert(df)
                       update_columns == UpdateColumns(columns_to_insert, pk_columns)
                       w == ExecuteMany(e.db, df.rows, 1, columns_to_insert,
                                        update_columns, e.fault, clock, tick)
                       c == get_connection(e.db, w.db, w.result # "ok")
                   IN  [db |-> c.db,
                        result |-> w.result,
                        now |-> w.now,
                        conns |-> e.conns \o c.events]

(***************************************************************************)
(* The mapping registry (mapping.py): semantic name -> origin -> entry,    *)
(* an entry being the physical code (or None) and the declared type.       *)
(***************************************************************************)
\* None among strings (Optional[str])
NoneStr == "None"

VAR_MAP ==
    "identificador_unidade" :> ("2013" :> [codigo |-> "upa_pns", tipo |-> "string"]
        @@ "2019" :> [codigo |-> "upa_pns", tipo |-> "string"])
    @@
    "sigla_uf" :> ("2013" :> [codigo |-> "sigla_uf", tipo |-> "string"]
        @@ "2019" :> [codigo |-> "sigla_uf", tipo |-> "string"])
    @@
    "v0024" :> ("2013" :> [codigo |-> "v0024", tipo |-> "string"]
        @@ "2019" :> [codigo |-> "v0024", tipo |-> "string"])
    @@
    "sexo" :> ("2013" :> [codigo |-> "c006", tipo |-> "string"]
        @@ "2019" :> [codigo |-> "c006", tipo |-> "string"])
    @@
    "idade" :> ("2013" :> [codigo |-> "c008", tipo |-> "int"]
        @@ "2019" :> [codigo |-> "c008", tipo |-> "int"])
    @@
    "preventivo" :> ("2013" :> [codigo |-> "r001", tipo |-> "string"]
        @@ "2019" :> [codigo |-> "r001", tipo |-> "string"])
    @@
    "mamografia" :> ("2013" :> [codigo |-> "r015", tipo |-> "string"]
        @@ "2019" :> [codigo |-> "r015", tipo |-> "string"])
    @@
    "renda_per_capita" :> ("2013" :> [codigo |-> "vdf003", tipo |-> "float"]
        @@ "2019" :> [codigo |-> "vdf003", tipo |-> "float"])
    @@
    "peso_amostral" :> ("2013" :> [codigo |-> "v00291", tipo |-> "float"]
        @@ "2019" :> [codigo |-> "v00291", tipo |-> "float"])
    @@
    "preventivo_pagou" :> ("2013" :> [codigo |-> "r012", tipo |-> "string"]
        @@ "2019" :> [codigo |-> "r012", tipo |-> "string"])
    @@
    "medico_pediu_mamografia" :> ("2013" :> [codigo |-> "r014", tipo |-> "string"]
        @@ "2019" :> [codigo |-> "r014", tipo |-> "string"])
    @@
    "mamografia_pagou" :> ("2013" :> [codigo |-> "r019", tipo |-> "string"]
        @@ "2019" :> [codigo |-> "r019", tipo |-> "string"])
    @@
    "raca" :> ("2013" :> [codigo |-> "c009", tipo |-> "string"]
        @@ "2019" :> [codigo |-> "c009", tipo |-> "string"])
    @@
    "anos_estudo" :> ("2013" :> [codigo |-> "vdd004a", tipo |-> "int"]
        @@ "2019" :> [codigo |-> "vdd004a", tipo |-> "int"])
    @@
    "ja_engravidou" :> ("2013" :> [codigo |-> "r039", tipo |-> "string"]
        @@ "2019" :> [codigo |-> "r039", tipo |-> "string"])
    @@
    "filhos_vivos" :> ("2013" :> [codigo |-> "r045", tipo |-> "int"]
        @@ "2019" :> [codigo |-> "r045", tipo |-> "int"])
    @@
    "estado_civil" :> ("2013" :> [codigo |-> "c011", tipo |-> "string"]
        @@ "2019" :> [codigo |-> "c011", tipo |-> "string"])

\* VAR_MAP.keys(), in insertion order
VAR_MAP_keys ==
    << "identificador_unidade",
       "sigla_uf",
       "v0024",
       "sexo",
       "idade",
       "preventivo",
       "mamografia",
       "renda_per_capita",
       "peso_amostral",
       "preventivo_pagou",
       "medico_pediu_mamografia",
       "mamografia_pagou",
       "raca",
       "anos_estudo",
       "ja_engravidou",
       "filhos_vivos",
       "estado_civil" >>

\* a registry with an entry whose code is None, the rule of the module for
\* a variable that does not exist in one year
VAR_MAP_NullCode ==
    [VAR_MAP EXCEPT !["ja_engravidou"]["2013"].codigo = NoneStr]

\* the outcome of a call: the value returned, or the exception raised
Return(value) == [raised |-> FALSE, value |-> value]

KeyError == [raised |-> TRUE, value |-> "KeyError"]

\* dict.get(key): None when the key is missing
Get(d, key) == IF key \in DOMAIN d THEN d[key] ELSE NoneStr

\* the two membership tests are missing
get_codigo_fisico_NoGuard(variavel_semantica, origem) ==
    IF variavel_semantica \notin DOMAIN var_map THEN KeyError
    ELSE IF origem \notin DOMAIN var_map[variavel_semantica] THEN KeyError
    ELSE Return(Get(var_map[variavel_semantica][origem], "codigo"))

get_codigo_fisico(variavel_semantica, origem) ==
    IF variavel_semantica \notin DOMAIN var_map THEN Return(NoneStr)
    ELSE IF origem \notin DOMAIN var_map[variavel_semantica] THEN Return(NoneStr)
    ELSE Return(Get(var_map[variavel_semantica][origem], "codigo"))

\* the code is returned in place of the type
get_tipo_ReturnsCodigo(variavel_semantica, origem) ==
    IF variavel_semantica \notin DOMAIN var_map THEN Return(NoneStr)
    ELSE IF origem \notin DOMAIN var_map[variavel_semantica] THEN Return(NoneStr)
    ELSE Return(Get(var_map[variavel_semantica][origem], "codigo"))

get_tipo(variavel_semantica, origem) ==
    IF variavel_semantica \notin DOMAIN var_map THEN Return(NoneStr)
    ELSE IF origem \notin DOMAIN var_map[variavel_semantica] THEN Return(NoneStr)
    ELSE Return(Get(var_map[variavel_semantica][origem], "tipo"))

\* the entry is looked for, not its code
variavel_existe_EntryOnly(variavel_semantica, origem) ==
    Return(/\ variavel_semantica \in DOMAIN var_map
           /\ origem \in DOMAIN var_map[variavel_semantica])

variavel_existe(variavel_semantica, origem) ==
    LET codigo == get_codigo_fisico(variavel_semantica, origem)
    IN  IF codigo.raised THEN codigo ELSE Return(codigo.value # NoneStr)

listar_variaveis_disponiveis(origem) ==
    IF origem = NoneStr
    THEN Return(VAR_MAP_keys)
    ELSE IF \E i \in 1..Len(VAR_MAP_keys) :
               variavel_existe(VAR_MAP_keys[i], origem).raised
    THEN KeyError
    ELSE Return(SelectSeq(VAR_MAP_keys,
                          LAMBDA var : variavel_existe(var, origem).value))

(***************************************************************************)
(* Inputs of the handlers: the DataFrames of the test script and of the    *)
(* scenarios, with two keys, (2013, UPA001) and (2019, UPA002).            *)
(***************************************************************************)
ColsIdade == <<"origem", "identificador_unidade", "idade">>
ColsRenda == <<"origem", "identificador_unidade", "renda_per_capita">>
ColsNoKey == <<"origem", "idade">>

RowIdade(origem, id, idade) ==
    [c \in Range(ColsIdade) |->
        IF c = "origem" THEN origem
        ELSE IF c = "identificador_unidade" THEN id ELSE idade]

RowRenda(origem, id, renda) ==
    [c \in Range(ColsRenda) |->
        IF c = "origem" THEN origem
        ELSE IF c = "identificador_unidade" THEN id ELSE renda]

RowNoKey(origem, idade) ==
    [c \in Range(ColsNoKey) |-> IF c = "origem" THEN origem ELSE idade]

\* two new rows
df_test ==
    [columns |-> ColsIdade,
     rows |-> << RowIdade("2013", "UPA001", "30"), RowIdade("2019", "UPA002", "28") >>]
\* one row, another value of idade
df_update ==
    [columns |-> ColsIdade, rows |-> << RowIdade("2013", "UPA001", "31") >>]
\* the same key twice
df_repeat ==
    [columns |-> ColsIdade,
     rows |-> << RowIdade("2013", "UPA001", "30"), RowIdade("2013", "UPA001", "31") >>]
\* a null key in the second row
df_null ==
    [columns |-> ColsIdade,
     rows |-> << RowIdade("2019", "UPA002", "29"), RowIdade("2013", NULL, "30") >>]
\* another data column
df_renda ==
    [columns |-> ColsRenda, rows |-> << RowRenda("2019", "UPA002", "1500.5") >>]
\* no rows
df_empty == [columns |-> ColsRenda, rows |-> << >>]
\* a key column is missing
df_nokey == [columns |-> ColsNoKey, rows |-> << RowNoKey("2013", "30") >>]
\* a key column is missing and there are no rows
df_nokey_empty == [columns |-> ColsNoKey, rows |-> << >>]

\* the DataFrame carries created_at and updated_at, with times before the
\* clock of the model starts
ColsAudit == <<"origem", "identificador_unidade", "idade", "created_at", "updated_at">>

RowAudit(origem, id, idade, created_at, updated_at) ==
    [c \in Range(ColsAudit) |->
        IF c = "origem" THEN origem
        ELSE IF c = "identificador_unidade" THEN id
        ELSE IF c = "idade" THEN idade
        ELSE IF c = "created_at" THEN created_at ELSE updated_at]

df_audit ==
    [columns |-> ColsAudit, rows |-> << RowAudit("2013", "UPA001", "32", -2, -1) >>]

Batches ==
    {df_test, df_update, df_repeat, df_null, df_renda, df_empty, df_nokey,
     df_nokey_empty, df_audit}

\* pk_columns: None (the default), or a list of the caller
PkChoices == {None, <<"idade">>}

\* the environment of one upsert_rows call: either the clock advances by
\* one just before row tick (0: it does not), or the fault-th write
\* statement of the call fails
UpsertEnv(df) ==
    {[fault |-> 0, tick |-> k] : k \in 0..Len(df.rows)}
        \cup {[fault |-> k, tick |-> 0] : k \in 1..(Len(df.rows) + 1)}

ColumnArgs == {"idade"}
TypeArgs == {"TEXT", "INTEGER"}
ColumnListArgs ==
    {<<"idade", "renda_per_capita">>, <<"sexo", "updated_at">>,
     <<"coletado_at", "Peso_Anos">>}

NoDf == [columns |-> << >>, rows |-> << >>]

\* the record of a handler call; repeat tells that the call before it was
\* the same call, with the same arguments, and returned normally
Call(op, df, pk, names, ctype, result, repeat) ==
    [op |-> op, df |-> df, pk |-> pk, names |-> names, ctype |-> ctype,
     result |-> result, repeat |-> repeat]

Repeats(op, df, pk, names, ctype) ==
    /\ last.op = op
    /\ last.df = df
    /\ last.pk = pk
    /\ last.names = names
    /\ last.ctype = ctype
    /\ last.result = "ok"

\* arguments of the registry functions: names of the registry and a name it
\* does not have, the two origins and an origin it does not have
VariavelArgs ==
    {"identificador_unidade", "origem", "idade", "renda_per_capita", "ja_engravidou"}
OrigemArgs == {"2013", "2019", "2020"}

\* the record of a call of a registry function
Lookup(op, variavel_semantica, origem, outcome) ==
    [op |-> op, variavel |-> variavel_semantica, origem |-> origem,
     raised |-> outcome.raised, value |-> outcome.value]

NoLookup == Lookup("init", NoneStr, NoneStr, Return(NoneStr))

(***************************************************************************)
(* The state machine of the cache store.                                   *)
(***************************************************************************)
Db == [schema |-> schema, rows |-> rows]

RegistryIdle ==
    /\ var_map = VAR_MAP
    /\ reg = NoLookup
    /\ prev = NoLookup

\* a run starts on a fresh database file, or on one in which an earlier run
\* has created the table (ensure_table_exists on the fresh file)
Init ==
    /\ schema \in {<< >>, CreateTable}
    /\ rows = << >>
    /\ now = 0
    /\ last = Call("init", NoDf, None, << >>, NULL, "ok", FALSE)
    /\ conns = << >>
    /\ nops = 0
    /\ ticked = 0
    /\ RegistryIdle

\* table_exists() called by the caller
TableExists ==
    /\ nops < MaxOps
    /\ conns' = Query(Db)
    /\ last' = Call("table_exists", NoDf, None, << >>, NULL,
                    IF table_exists(schema) THEN "True" ELSE "False",
                    FALSE)
    /\ nops' = nops + 1
    /\ ticked' = 0
    /\ UNCHANGED <<schema, rows, now, var_map, reg, prev>>

\* get_table_columns() called by the caller
GetTableColumns ==
    /\ nops < MaxOps
    /\ conns' = Query(Db)
    /\ last' = Call("get_table_columns", NoDf, None, get_table_columns(schema),
                    NULL, "ok", FALSE)
    /\ nops' = nops + 1
    /\ ticked' = 0
    /\ UNCHANGED <<schema, rows, now, var_map, reg, prev>>

EnsureTableExists ==
    /\ nops < MaxOps
    /\ \E fault \in 0..1 :
          LET r == ensure_table_exists(Db, fault)
          IN  /\ schema' = r.db.schema
              /\ rows' = r.db.rows
              /\ conns' = r.conns
              /\ last' = Call("ensure_table_exists", NoDf, None, << >>, NULL, r.result,
                              Repeats("ensure_table_exists", NoDf, None, << >>, NULL))
    /\ nops' = nops + 1
    /\ ticked' = 0
    /\ UNCHANGED <<now, var_map, reg, prev>>

AddColumnIfNotExists ==
    /\ nops < MaxOps
    /\ \E column_name \in ColumnArgs, column_type \in TypeArgs, fault \in 0..1 :
          LET r == add_column_if_not_exists(Db, column_name, column_type, fault)
          IN  /\ schema' = r.db.schema
              /\ rows' = r.db.rows
              /\ conns' = r.conns
              /\ last' = Call("add_column_if_not_exists", NoDf, None,
                              <<column_name>>, column_type, r.result,
                              Repeats("add_column_if_not_exists", NoDf, None,
                                      <<column_name>>, column_type))
    /\ nops' = nops + 1
    /\ ticked' = 0
    /\ UNCHANGED <<now, var_map, reg, prev>>

EnsureColumnsExist ==
    /\ nops < MaxOps
    /\ \E column_names \in ColumnListArgs, fault \in 0..2 :
          LET r == ensure_columns_exist(Db, column_names, fault)
          IN  /\ schema' = r.db.schema
              /\ rows' = r.db.rows
              /\ conns' = r.conns
              /\ last' = Call("ensure_columns_exist", NoDf, None,
                              column_names, NULL, r.result,
                              Repeats("ensure_columns_exist", NoDf, None,
                                      column_names, NULL))
    /\ nops' = nops + 1
    /\ ticked' = 0
    /\ UNCHANGED <<now, var_map, reg, prev>>

UpsertRows ==
    /\ nops < MaxOps
    /\ \E df \in Batches, pk \in PkChoices :
       \E env \in UpsertEnv(df) :
          LET r == upsert_rows(Db, df, pk, env.fault, now, env.tick)
          IN  /\ r.now <= MaxClock
              /\ schema' = r.db.schema
              /\ rows' = r.db.rows
              /\ conns' = r.conns
              /\ now' = r.now
              /\ ticked' = IF r.now > now THEN env.tick ELSE 0
              /\ last' = Call("upsert_rows", df, pk, << >>, NULL, r.result,
                              Repeats("upsert_rows", df, pk, << >>, NULL))
    /\ nops' = nops + 1
    /\ UNCHANGED <<var_map, reg, prev>>

Next ==
    \/ TableExists
    \/ GetTableColumns
    \/ EnsureTableExists
    \/ AddColumnIfNotExists
    \/ EnsureColumnsExist
    \/ UpsertRows

Spec == Init /\ [][Next]_vars

(***************************************************************************)
(* The state machine of the mapping registry: the registry is the one of   *)
(* the module, or one with a None code, and every step is a call of one of *)
(* its functions.  The store is not used.                                  *)
(***************************************************************************)
MapInit ==
    /\ var_map \in {VAR_MAP, VAR_MAP_NullCode}
    /\ reg = NoLookup
    /\ prev = NoLookup
    /\ schema = << >>
    /\ rows = << >>
    /\ now = 0
    /\ last = Call("init", NoDf, None, << >>, NULL, "ok", FALSE)
    /\ conns = << >>
    /\ nops = 0
    /\ ticked = 0

StoreIdle == UNCHANGED <<schema, rows, now, last, conns, nops, ticked, var_map>>

GetCodigoFisico ==
    /\ \E variavel_semantica \in VariavelArgs, origem \in OrigemArgs :
          reg' = Lookup("get_codigo_fisico", variavel_semantica, origem,
                        get_codigo_fisico(variavel_semantica, origem))
    /\ prev' = reg
    /\ StoreIdle

GetTipo ==
    /\ \E variavel_semantica \in VariavelArgs, origem \in OrigemArgs :
          reg' = Lookup("get_tipo", variavel_semantica, origem,
                        get_tipo(variavel_semantica, origem))
    /\ prev' = reg
    /\ StoreIdle

VariavelExiste ==
    /\ \E variavel_semantica \in VariavelArgs, origem \in OrigemArgs :
          reg' = Lookup("variavel_existe", variavel_semantica, origem,
                        variavel_existe(variavel_semantica, origem))
    /\ prev' = reg
    /\ StoreIdle

ListarVariaveisDisponiveis ==
    /\ \E origem \in OrigemArgs \cup {NoneStr} :
          reg' = Lookup("listar_variaveis_disponiveis", NoneStr, origem,
                        listar_variaveis_disponiveis(origem))
    /\ prev' = reg
    /\ StoreIdle

MapNext ==
    \/ GetCodigoFisico
    \/ GetTipo
    \/ VariavelExiste
    \/ ListarVariaveisDisponiveis

MapSpec == MapInit /\ [][MapNext]_vars

(***************************************************************************)
(* Vocabulary of the properties.                                           *)
(***************************************************************************)
AuditColumns == {"created_at", "updated_at"}

Key(row) == <<row["origem"], row["identificador_unidade"]>>

\* the key of row i of a DataFrame; a key column the DataFrame lacks is NULL
DfKey(df, i) ==
    << IF "origem" \in Range(df.columns) THEN df.rows[i]["origem"] ELSE NULL,
       IF "identificador_unidade" \in Range(df.columns)
       THEN df.rows[i]["identificador_unidade"] ELSE NULL >>

DfKeys(df) == {DfKey(df, i) : i \in 1..Len(df.rows)}

StoredKeys(rs) == {Key(rs[i]) : i \in 1..Len(rs)}

SchemaNames(sch) == {sch[i].name : i \in 1..Len(sch)}

Upserted(call) == call.op = "upsert_rows"

UpsertedOk(call) ==
    /\ call.op = "upsert_rows"
    /\ call.result = "ok"
    /\ Len(call.df.rows) > 0

(***************************************************************************)
(* C1: a stored row keeps its created_at in every step: whatever handler   *)
(* runs, the row with that key is still stored afterwards and its          *)
(* created_at is the one the inserting upsert gave it.                     *)
(***************************************************************************)
C1_CreatedAtKept ==
    [][\A i \in 1..Len(rows) :
          \E j \in 1..Len(rows') :
              /\ Key(rows'[j]) = Key(rows[i])
              /\ rows'[j]["created_at"] = rows[i]["created_at"]]_vars

\* a successful upsert has updated a row that was inserted at an earlier time
C1_Witness ==
    /\ UpsertedOk(last)
    /\ \E i \in 1..Len(rows) :
          /\ Key(rows[i]) \in DfKeys(last.df)
          /\ rows[i]["updated_at"] > rows[i]["created_at"]

(***************************************************************************)
(* C2, as stated: an upsert of a batch that contains a stored key leaves   *)
(* every column of that row that is not a column of the batch unchanged.   *)
(***************************************************************************)
C2_AsStated ==
    [][Upserted(last') =>
          \A i \in 1..Len(rows) :
              Key(rows[i]) \in DfKeys(last'.df) =>
                  \E j \in 1..Len(rows') :
                      /\ Key(rows'[j]) = Key(rows[i])
                      /\ \A c \in DOMAIN rows[i] \ Range(last'.df.columns) :
                            rows'[j][c] = rows[i][c]]_vars

(***************************************************************************)
(* C2, amended: an upsert of a batch that contains a stored key leaves     *)
(* every column of that row that is neither a column of the batch nor      *)
(* updated_at unchanged; no such column that was non-null becomes null.    *)
(***************************************************************************)
C2_AbsentColumnsKept ==
    [][Upserted(last') =>
          \A i \in 1..Len(rows) :
              Key(rows[i]) \in DfKeys(last'.df) =>
                  \E j \in 1..Len(rows') :
                      /\ Key(rows'[j]) = Key(rows[i])
                      /\ \A c \in DOMAIN rows[i] \
                                    (Range(last'.df.columns) \cup {"updated_at"}) :
                            rows'[j][c] = rows[i][c]]_vars

\* a successful upsert has touched a stored row that holds a value in a data
\* column the batch does not have
C2_Witness ==
    /\ UpsertedOk(last)
    /\ \E i \in 1..Len(rows) :
          /\ Key(rows[i]) \in DfKeys(last.df)
          /\ rows[i]["updated_at"] > rows[i]["created_at"]
          /\ \E c \in DOMAIN rows[i] \ (Range(last.df.columns) \cup AuditColumns) :
                rows[i][c] # NULL

(***************************************************************************)
(* C3: no two stored rows have the same (origem, identificador_unidade).   *)
(***************************************************************************)
C3_PrimaryKeyUnique ==
    \A i, j \in 1..Len(rows) : Key(rows[i]) = Key(rows[j]) => i = j

\* a successful upsert, with a pk_columns argument of the caller, of a batch
\* that has the same key in two rows
C3_Witness ==
    /\ UpsertedOk(last)
    /\ last.pk # None
    /\ \E i, j \in 1..Len(last.df.rows) :
          i # j /\ DfKey(last.df, i) = DfKey(last.df, j)
    /\ Len(rows) > 0

(***************************************************************************)
(* C4: an upsert is all-or-nothing for rows.  A call that raised leaves    *)
(* the stored rows as they were (the same rows, with the same value in     *)
(* every column they had); a call that returned has applied every          *)
(* row of the batch: the key of each row is stored, its updated_at is not  *)
(* older than the call, and the columns the statement updates hold the     *)
(* values of the last row of the batch with that key.                      *)
(***************************************************************************)
PkOf(call) == IF call.pk = None THEN {"origem", "identificador_unidade"}
              ELSE Range(call.pk)

LastOccurrence(df, i) ==
    \A k \in 1..Len(df.rows) : DfKey(df, k) = DfKey(df, i) => k <= i

RowsKept(old, new) ==
    /\ Len(new) = Len(old)
    /\ \A i \in 1..Len(old) : \A c \in DOMAIN old[i] : new[i][c] = old[i][c]

C4_AllOrNothing ==
    [][Upserted(last') =>
          /\ last'.result # "ok" => RowsKept(rows, rows')
          /\ UpsertedOk(last') =>
                \A i \in 1..Len(last'.df.rows) :
                    \E j \in 1..Len(rows') :
                        /\ Key(rows'[j]) = DfKey(last'.df, i)
                        /\ rows'[j]["updated_at"] >= now
                        /\ LastOccurrence(last'.df, i) =>
                              \A c \in Range(last'.df.columns) \
                                          (PkOf(last') \cup AuditColumns) :
                                  rows'[j][c] = last'.df.rows[i][c]]_vars

\* an upsert of two rows has raised on the null key of the second row, after
\* the first row was written, and the key of the first row is not stored
C4_Witness ==
    /\ Upserted(last)
    /\ last.result = "IntegrityError"
    /\ Len(last.df.rows) = 2
    /\ NULL \notin {DfKey(last.df, 1)[1], DfKey(last.df, 1)[2]}
    /\ NULL \in {DfKey(last.df, 2)[1], DfKey(last.df, 2)[2]}
    /\ DfKey(last.df, 1) \notin StoredKeys(rows)

(***************************************************************************)
(* C5: updated_at of a stored row never decreases, and a successful upsert *)
(* gives every row it touches an updated_at read from the clock during     *)
(* the call (the clock value at the end of the call for the last row).     *)
(***************************************************************************)
C5_UpdatedAtCurrent ==
    [][/\ \A i \in 1..Len(rows) :
             \E j \in 1..Len(rows') :
                 /\ Key(rows'[j]) = Key(rows[i])
                 /\ rows'[j]["updated_at"] >= rows[i]["updated_at"]
       /\ UpsertedOk(last') =>
             \A k \in 1..Len(last'.df.rows) :
                 \E j \in 1..Len(rows') :
                     /\ Key(rows'[j]) = DfKey(last'.df, k)
                     /\ rows'[j]["updated_at"] >= now
                     /\ rows'[j]["updated_at"] <= now'
                     /\ k = Len(last'.df.rows) => rows'[j]["updated_at"] = now']_vars

\* a successful upsert of a batch without the column idade has refreshed the
\* updated_at of a row inserted earlier
C5_Witness ==
    /\ UpsertedOk(last)
    /\ "idade" \notin Range(last.df.columns)
    /\ \E i \in 1..Len(rows) :
          /\ Key(rows[i]) \in DfKeys(last.df)
          /\ rows[i]["created_at"] < now
          /\ rows[i]["updated_at"] = now

(***************************************************************************)
(* C6, as stated: an upsert of a batch that lacks one of pk_columns raises *)
(* ValueError and changes neither the schema nor the rows.                 *)
(***************************************************************************)
C6_AsStated ==
    [][(Upserted(last') /\ PkOf(last') \ Range(last'.df.columns) # {}) =>
          /\ last'.result = "ValueError"
          /\ schema' = schema
          /\ rows' = rows]_vars

C8_SchemaOnlyGrows ==
    [][\A i \in 1..Len(schema) :
          /\ \E j \in 1..Len(schema') : schema'[j] = schema[i]
          /\ \A j \in 1..Len(schema') :
                schema'[j].name = schema[i].name =>
                    schema'[j].type = schema[i].type]_vars

\* add_column_if_not_exists has returned normally for a column the schema
\* has with another type
C8_Witness ==
    /\ last.op = "add_column_if_not_exists"
    /\ last.result = "ok"
    /\ \E i \in 1..Len(schema) :
          /\ schema[i].name = last.names[1]
          /\ schema[i].type # last.ctype

(***************************************************************************)
(* C9: ensure_table_exists, or add_column_if_not_exists with the same      *)
(* arguments, called right after a call of it that returned normally,      *)
(* returns normally and changes neither the schema nor the rows.           *)
(***************************************************************************)
C9_EnsureIdempotent ==
    [][(/\ last'.op \in {"ensure_table_exists", "add_column_if_not_exists"}
        /\ last'.repeat) =>
          /\ last'.result = "ok"
          /\ schema' = schema
          /\ rows' = rows]_vars

\* add_column_if_not_exists has been called twice in a row for a column
C9_Witness ==
    /\ last.op = "add_column_if_not_exists"
    /\ last.repeat
    /\ last.result = "ok"
    /\ [name |-> last.names[1], type |-> last.ctype] \in Range(schema)

(***************************************************************************)
(* C10: after a successful upsert of a batch with rows, every column of    *)
(* the batch is in the schema exactly once, every column the call added is *)
(* a column of the batch (renda_per_capita with type REAL), and a call     *)
(* that repeats the call before it adds no column.                         *)
(***************************************************************************)
C10_BatchColumnsInSchema ==
    [][UpsertedOk(last') =>
          /\ \A c \in Range(last'.df.columns) :
                Cardinality({j \in 1..Len(schema') : schema'[j].name = c}) = 1
          /\ \A j \in 1..Len(schema') :
                j > Len(schema) =>
                    /\ schema'[j].name \in Range(last'.df.columns)
                    /\ schema'[j].name = "renda_per_capita" =>
                          schema'[j].type = "REAL"
          /\ last'.repeat => schema' = schema]_vars

\* the batch with renda_per_capita has been upserted twice in a row and the
\* schema has the column with type REAL
C10_Witness ==
    /\ UpsertedOk(last)
    /\ last.repeat
    /\ "renda_per_capita" \in Range(last.df.columns)
    /\ [name |-> "renda_per_capita", type |-> "REAL"] \in Range(schema)

(***************************************************************************)
(* C11: an upsert that returned normally leaves every stored row whose key *)
(* is not a key of the batch as it was, in every column it had (created_at *)
(* and updated_at included), and the number of stored rows grows by the    *)
(* number of distinct keys of the batch that were not stored.              *)
(***************************************************************************)
C11_OtherRowsUntouched ==
    [][(Upserted(last') /\ last'.result = "ok") =>
          /\ \A i \in 1..Len(rows) :
                Key(rows[i]) \notin DfKeys(last'.df) =>
                    \E j \in 1..Len(rows') :
                        /\ Key(rows'[j]) = Key(rows[i])
                        /\ \A c \in DOMAIN rows[i] : rows'[j][c] = rows[i][c]
          /\ Len(rows') =
                Len(rows) + Cardinality(DfKeys(last'.df) \ StoredKeys(rows))]_vars

\* the scenario: two rows are stored, the last upsert returned normally, its
\* batch has the key of one of them, which it updated at a later time, and
\* the other row still has the timestamps of its insert
C11_Witness ==
    /\ UpsertedOk(last)
    /\ Len(rows) = 2
    /\ \E i, j \in 1..Len(rows) :
          /\ Key(rows[i]) \in DfKeys(last.df)
          /\ rows[i]["updated_at"] > rows[i]["created_at"]
          /\ Key(rows[j]) \notin DfKeys(last.df)
          /\ rows[j]["updated_at"] = rows[j]["created_at"]
          /\ rows[j]["updated_at"] < now

(***************************************************************************)
(* C12: an upsert that repeats the call before it (the same batch and      *)
(* pk_columns, the call before returned normally) and returns normally     *)
(* leaves the schema, the stored keys and every column other than          *)
(* updated_at of every row as they were, and changes updated_at only in    *)
(* rows whose key is a key of the batch.                                   *)
(***************************************************************************)
C12_UpsertIdempotent ==
    [][(Upserted(last') /\ last'.repeat /\ last'.result = "ok") =>
          /\ schema' = schema
          /\ Len(rows') = Len(rows)
          /\ \A i \in 1..Len(rows) :
                /\ \A c \in DOMAIN rows[i] \ {"updated_at"} :
                      rows'[i][c] = rows[i][c]
                /\ Key(rows[i]) \notin DfKeys(last'.df) =>
                      rows'[i]["updated_at"] = rows[i]["updated_at"]]_vars

\* a batch with rows has been upserted twice in a row, the second time at a
\* later time than the first
C12_Witness ==
    /\ UpsertedOk(last)
    /\ last.repeat
    /\ \E i \in 1..Len(rows) :
          /\ Key(rows[i]) \in DfKeys(last.df)
          /\ rows[i]["updated_at"] > rows[i]["created_at"]

(***************************************************************************)
(* C17, as stated: every column ensure_columns_exist adds (called by the   *)
(* caller or by upsert_rows) is INTEGER when its name has a word of the    *)
(* age/count vocabulary, REAL when it has none of them and has a word of   *)
(* the monetary/weight vocabulary, and TEXT for every other name.          *)
(***************************************************************************)
IntegerWords == {"idade", "anos", "filhos", "count"}

RealWords == {"peso", "renda", "per_capita"}

HasWord(name, words) == \E kw \in words : Contains(Lower(name), kw)

AddedByEnsure(j) ==
    /\ last'.op \in {"ensure_columns_exist", "upsert_rows"}
    /\ j \in 1..Len(schema')
    /\ j > Len(schema)

C17_AsStated ==
    [][\A j \in 1..Len(schema') :
          AddedByEnsure(j) =>
              schema'[j].type =
                  IF HasWord(schema'[j].name, IntegerWords) THEN "INTEGER"
                  ELSE IF HasWord(schema'[j].name, RealWords) THEN "REAL"
                  ELSE "TEXT"]_vars

(***************************************************************************)
(* C17, amended: every column ensure_columns_exist adds is DATETIME when   *)
(* its name ends in _at; otherwise INTEGER when its name in lower case has *)
(* a word of the age/count vocabulary; otherwise REAL when it has a word   *)
(* of the monetary/weight vocabulary; otherwise TEXT.                      *)
(***************************************************************************)
C17_TypeFromName ==
    [][\A j \in 1..Len(schema') :
          AddedByEnsure(j) =>
              LET name == schema'[j].name
                  type == schema'[j].type
              IN  /\ EndsWith(name, "_at") => type = "DATETIME"
                  /\ (~EndsWith(name, "_at") /\ HasWord(name, IntegerWords)) =>
                        type = "INTEGER"
                  /\ (/\ ~EndsWith(name, "_at")
                      /\ ~HasWord(name, IntegerWords)
                      /\ HasWord(name, RealWords)) => type = "REAL"
                  /\ (/\ ~EndsWith(name, "_at")
                      /\ ~HasWord(name, IntegerWords)
                      /\ ~HasWord(name, RealWords)) => type = "TEXT"]_vars

\* ensure_columns_exist has added a column whose name ends in _at and a
\* column whose name has, in upper and lower case, a word of each vocabulary
C17_Witness ==
    /\ last.op = "ensure_columns_exist"
    /\ last.result = "ok"
    /\ [name |-> "coletado_at", type |-> "DATETIME"] \in Range(schema)
    /\ [name |-> "Peso_Anos", type |-> "INTEGER"] \in Range(schema)

(***************************************************************************)
(* C18, as stated: in a row a successful upsert inserts for a new key,     *)
(* every column of the schema that is not a column of the batch is null;   *)
(* and a column the call adds to the schema is null in every row that was  *)
(* stored before the call and whose key is not a key of the batch.         *)
(***************************************************************************)
\* a stored value is the null: timestamps are numbers and every other value
\* is a string, so the two are compared as printed
IsNull(v) == ToString(v) = ToString(NULL)

NewColumnsNull ==
    \A i \in 1..Len(rows) :
        Key(rows[i]) \notin DfKeys(last'.df) =>
            \A c \in SchemaNames(schema') \ SchemaNames(schema) :
                IsNull(rows'[i][c])

C18_AsStated ==
    [][UpsertedOk(last') =>
          /\ \A j \in 1..Len(rows') :
                Key(rows'[j]) \notin StoredKeys(rows) =>
                    \A c \in SchemaNames(schema') \ Range(last'.df.columns) :
                        IsNull(rows'[j][c])
          /\ NewColumnsNull]_vars

(***************************************************************************)
(* C18, amended: in a row a successful upsert inserts for a new key, every *)
(* column of the schema that is neither a column of the batch nor          *)
(* created_at nor updated_at is null; and a column the call adds to the    *)
(* schema is null in every row that was stored before the call and whose   *)
(* key is not a key of the batch.                                          *)
(***************************************************************************)
C18_AbsentColumnsNull ==
    [][UpsertedOk(last') =>
          /\ \A j \in 1..Len(rows') :
                Key(rows'[j]) \notin StoredKeys(rows) =>
                    \A c \in SchemaNames(schema') \
                                (Range(last'.df.columns) \cup AuditColumns) :
                        IsNull(rows'[j][c])
          /\ NewColumnsNull]_vars

\* a successful upsert of a batch with the column renda_per_capita has
\* inserted a row in which idade is null, and renda_per_capita is null in a
\* row stored before, which holds a value of idade
C18_Witness ==
    /\ UpsertedOk(last)
    /\ "renda_per_capita" \in Range(last.df.columns)
    /\ "idade" \in SchemaNames(schema)
    /\ \E i, j \in 1..Len(rows) :
          /\ Key(rows[i]) \in DfKeys(last.df)
          /\ rows[i]["created_at"] = now
          /\ rows[i]["idade"] = NULL
          /\ rows[i]["renda_per_capita"] # NULL
          /\ Key(rows[j]) \notin DfKeys(last.df)
          /\ rows[j]["created_at"] < now
          /\ rows[j]["idade"] # NULL
          /\ rows[j]["renda_per_capita"] = NULL

(***************************************************************************)
(* C19, as stated: an upsert that raises leaves the schema as it was.      *)
(***************************************************************************)
C19_AsStated ==
    [][(Upserted(last') /\ last'.result # "ok") => schema' = schema]_vars

(***************************************************************************)
(* C16: between handler calls no connection is open, and every connection  *)
(* the last call opened was committed and closed, or, when its block       *)
(* raised, rolled back and closed: the events of the call are a sequence   *)
(* of blocks connect-commit-close or connect-rollback-close, a rolled back *)
(* block is the last one of a call that raised, and a call that raised a   *)
(* storage error ends with a rolled back block.                            *)
(***************************************************************************)
Blocks(events) ==
    [k \in 1..(Len(events) \div 3) |-> SubSeq(events, 3 * k - 2, 3 * k)]

OpenConnections(events) ==
    Cardinality({i \in 1..Len(events) : events[i] = "connect"})
        - Cardinality({i \in 1..Len(events) : events[i] = "close"})

StorageErrors == {"OperationalError", "IntegrityError"}

C16_ConnectionsReleased ==
    LET blocks == Blocks(conns)
    IN  /\ OpenConnections(conns) = 0
        /\ Len(conns) = 3 * Len(blocks)
        /\ \A k \in 1..Len(blocks) :
              /\ blocks[k] \in {<<"connect", "commit", "close">>,
                                <<"connect", "rollback", "close">>}
              /\ blocks[k][2] = "rollback" =>
                    (k = Len(blocks) /\ last.result \in StorageErrors)
        /\ last.result \in StorageErrors =>
              (Len(blocks) > 0 /\ blocks[Len(blocks)][2] = "rollback")

\* an upsert has added a column in connections of its own and then raised
\* on the null key of a row: the connection of the rows was rolled back and
\* closed
C16_Witness ==
    /\ Upserted(last)
    /\ last.result = "IntegrityError"
    /\ Len(conns) >= 9
    /\ SubSeq(conns, Len(conns) - 2, Len(conns)) = <<"connect", "rollback", "close">>
    /\ SubSeq(conns, 1, 3) = <<"connect", "commit", "close">>

(***************************************************************************)
(* Vocabulary of the registry properties.                                  *)
(***************************************************************************)
\* the registry has an entry for the name and the origin
HasEntry(variavel_semantica, origem) ==
    /\ variavel_semantica \in DOMAIN var_map
    /\ origem \in DOMAIN var_map[variavel_semantica]

\* the last two calls had the same arguments
SameArgs == prev.variavel = reg.variavel /\ prev.origem = reg.origem

Origens == {"2013", "2019"}

Tipos == {"int", "string", "float"}

(***************************************************************************)
(* C13: get_codigo_fisico never raises, and for a name the registry does   *)
(* not have, or an origin the name has no entry for, it returns None and   *)
(* variavel_existe returns False, without raising.                         *)
(***************************************************************************)
C13_CodigoFisicoTotal ==
    /\ reg.op = "get_codigo_fisico" =>
          /\ ~reg.raised
          /\ ~HasEntry(reg.variavel, reg.origem) => reg.value = NoneStr
    /\ reg.op = "variavel_existe" =>
          /\ ~reg.raised
          /\ ~HasEntry(reg.variavel, reg.origem) => reg.value = FALSE

\* a name of the registry has been looked up, then tested, for an origin it
\* has no entry for
C13_Witness ==
    /\ prev.op = "get_codigo_fisico"
    /\ reg.op = "variavel_existe"
    /\ SameArgs
    /\ reg.variavel \in DOMAIN var_map
    /\ reg.origem \notin DOMAIN var_map[reg.variavel]
    /\ prev.value = NoneStr
    /\ reg.value = FALSE

(***************************************************************************)
(* C14: variavel_existe returns True exactly when get_codigo_fisico, for   *)
(* the same name and origin, returns a code; and the list                  *)
(* listar_variaveis_disponiveis returns for an origin has only names of    *)
(* the registry, each once, and has a name exactly when variavel_existe    *)
(* returns True for the name and that origin.                              *)
(***************************************************************************)
C14_ExisteIffCodigo ==
    /\ (prev.op = "get_codigo_fisico" /\ reg.op = "variavel_existe" /\ SameArgs) =>
          (reg.value <=> prev.value # NoneStr)
    /\ (reg.op = "listar_variaveis_disponiveis" /\ reg.origem # NoneStr) =>
          /\ ~reg.raised
          /\ Range(reg.value) \subseteq DOMAIN var_map
          /\ \A i, j \in 1..Len(reg.value) : reg.value[i] = reg.value[j] => i = j
          /\ (prev.op = "variavel_existe" /\ prev.origem = reg.origem) =>
                (prev.value <=> prev.variavel \in Range(reg.value))

\* variavel_existe has returned False for an entry whose code is None, and
\* the list for that origin, which has other names, has not that name
C14_Witness ==
    /\ prev.op = "variavel_existe"
    /\ HasEntry(prev.variavel, prev.origem)
    /\ prev.value = FALSE
    /\ reg.op = "listar_variaveis_disponiveis"
    /\ reg.origem = prev.origem
    /\ prev.variavel \notin Range(reg.value)
    /\ Len(reg.value) = Len(VAR_MAP_keys) - 1

(***************************************************************************)
(* C15, as stated: identificador_unidade and origem have an entry in the   *)
(* registry for 2013 and for 2019, and get_codigo_fisico returns a code    *)
(* for each of them in each of the two origins.                            *)
(***************************************************************************)
C15_AsStated ==
    /\ \A v \in {"identificador_unidade", "origem"} :
          \A o \in Origens : HasEntry(v, o)
    /\ (/\ reg.op = "get_codigo_fisico"
        /\ reg.variavel \in {"identificador_unidade", "origem"}
        /\ reg.origem \in Origens) => reg.value # NoneStr

(***************************************************************************)
(* C20, as stated: get_tipo never raises and returns None exactly when     *)
(* get_codigo_fisico, for the same name and origin, returns None;          *)
(* otherwise it returns int, string or float.                              *)
(***************************************************************************)
C20_AsStated ==
    /\ reg.op = "get_tipo" =>
          /\ ~reg.raised
          /\ reg.value # NoneStr => reg.value \in Tipos
    /\ (prev.op = "get_codigo_fisico" /\ reg.op = "get_tipo" /\ SameArgs) =>
          (reg.value = NoneStr <=> prev.value = NoneStr)

(***************************************************************************)
(* C20, amended: get_tipo never raises and returns None exactly when the   *)
(* registry has no entry for the name and the origin; otherwise it returns *)
(* int, string or float, also when the code of the entry is None; so it    *)
(* returns a type whenever get_codigo_fisico returns a code.               *)
(***************************************************************************)
C20_TipoAbsence ==
    /\ reg.op = "get_tipo" =>
          /\ ~reg.raised
          /\ reg.value = NoneStr <=> ~HasEntry(reg.variavel, reg.origem)
          /\ reg.value # NoneStr => reg.value \in Tipos
    /\ (prev.op = "get_codigo_fisico" /\ reg.op = "get_tipo" /\ SameArgs) =>
          (prev.value # NoneStr => reg.value # NoneStr)

\* get_codigo_fisico has returned None for an entry whose code is None, and
\* get_tipo has returned the type of that entry
C20_Witness ==
    /\ prev.op = "get_codigo_fisico"
    /\ reg.op = "get_tipo"
    /\ SameArgs
    /\ HasEntry(reg.variavel, reg.origem)
    /\ prev.value = NoneStr
    /\ reg.value \in Tipos

(***************************************************************************)
(* Vocabulary of the properties on the rows of one batch.                  *)
(***************************************************************************)
\* the time at which row i of the batch of the step was written
RowTime(i) == now + (IF ticked' >= 1 /\ ticked' <= i THEN 1 ELSE 0)

FirstOccurrence(df, i) ==
    \A k \in 1..Len(df.rows) : DfKey(df, k) = DfKey(df, i) => k >= i

RepeatedKey(df, i) ==
    \E k \in 1..Len(df.rows) : k # i /\ DfKey(df, k) = DfKey(df, i)

\* the stored rows with the key of row i of the batch
RowsOfKey(rs, df, i) == {j \in 1..Len(rs) : Key(rs[j]) = DfKey(df, i)}

\* created_at of the rows with the key of row f of the batch is the one
\* the key had before the call, or the time row f was written
CreatedAtFromFirst(df, f) ==
    \A j \in RowsOfKey(rows', df, f) :
        IF RowsOfKey(rows, df, f) # {}
        THEN \A h \in RowsOfKey(rows, df, f) :
                 rows'[j]["created_at"] = rows[h]["created_at"]
        ELSE rows'[j]["created_at"] = RowTime(f)

(***************************************************************************)
(* C21, as stated: after a successful upsert of a batch that has a key in  *)
(* more than one row, one row is stored for that key, every column of the  *)
(* batch holds in it the value of the last row of the batch with the key,  *)
(* and its created_at is the one it had before the call or, for a new key, *)
(* the time the first row with the key was written.                        *)
(***************************************************************************)
C21_AsStated ==
    [][UpsertedOk(last') =>
          \A i, f \in 1..Len(last'.df.rows) :
              (/\ RepeatedKey(last'.df, i)
               /\ LastOccurrence(last'.df, i)
               /\ FirstOccurrence(last'.df, f)
               /\ DfKey(last'.df, f) = DfKey(last'.df, i)) =>
                  /\ Cardinality(RowsOfKey(rows', last'.df, i)) = 1
                  /\ \A j \in RowsOfKey(rows', last'.df, i) :
                        \A c \in Range(last'.df.columns) :
                            rows'[j][c] = last'.df.rows[i][c]
                  /\ CreatedAtFromFirst(last'.df, f)]_vars

(***************************************************************************)
(* C21, amended: the same, for every column of the batch that is neither   *)
(* one of pk_columns nor created_at nor updated_at.                        *)
(***************************************************************************)
C21_RepeatedKeyInOrder ==
    [][UpsertedOk(last') =>
          \A i, f \in 1..Len(last'.df.rows) :
              (/\ RepeatedKey(last'.df, i)
               /\ LastOccurrence(last'.df, i)
               /\ FirstOccurrence(last'.df, f)
               /\ DfKey(last'.df, f) = DfKey(last'.df, i)) =>
                  /\ Cardinality(RowsOfKey(rows', last'.df, i)) = 1
                  /\ \A j \in RowsOfKey(rows', last'.df, i) :
                        \A c \in Range(last'.df.columns) \
                                    (PkOf(last') \cup AuditColumns) :
                            rows'[j][c] = last'.df.rows[i][c]
                  /\ CreatedAtFromFirst(last'.df, f)]_vars

\* a successful upsert, with the default pk_columns, of a batch with a new
\* key in two rows, the clock advancing between the two: the row holds the
\* idade of the second row, the created_at of the first and the updated_at
\* of the second
C21_Witness ==
    /\ UpsertedOk(last)
    /\ last.pk = None
    /\ ticked = 2
    /\ RepeatedKey(last.df, 2)
    /\ \E j \in 1..Len(rows) :
          /\ Key(rows[j]) = DfKey(last.df, 2)
          /\ rows[j]["idade"] = last.df.rows[2]["idade"]
          /\ rows[j]["idade"] # last.df.rows[1]["idade"]
          /\ rows[j]["created_at"] = now - 1
          /\ rows[j]["updated_at"] = now

(***************************************************************************)
(* C22: after a successful upsert of a batch that carries created_at or    *)
(* updated_at, the row of every key of the batch has the updated_at of the *)
(* time the last row with the key was written, and the created_at it had   *)
(* before the call or, for a new key, the time the first row with the key  *)
(* was written; neither is the value the batch supplies.                   *)
(***************************************************************************)
CarriesAudit(df) == Range(df.columns) \cap AuditColumns # {}

C22_SuppliedAuditIgnored ==
    [][(UpsertedOk(last') /\ CarriesAudit(last'.df)) =>
          \A i, f \in 1..Len(last'.df.rows) :
              (/\ LastOccurrence(last'.df, i)
               /\ FirstOccurrence(last'.df, f)
               /\ DfKey(last'.df, f) = DfKey(last'.df, i)) =>
                  /\ RowsOfKey(rows', last'.df, i) # {}
                  /\ \A j \in RowsOfKey(rows', last'.df, i) :
                        /\ rows'[j]["updated_at"] = RowTime(i)
                        /\ \A c \in Range(last'.df.columns) \cap AuditColumns :
                              rows'[j][c] # last'.df.rows[i][c]
                  /\ CreatedAtFromFirst(last'.df, f)]_vars

\* a successful upsert of a batch that carries created_at and updated_at has
\* updated a row stored at an earlier time
C22_Witness ==
    /\ UpsertedOk(last)
    /\ {"created_at", "updated_at"} \subseteq Range(last.df.columns)
    /\ \E j \in 1..Len(rows) :
          /\ Key(rows[j]) = DfKey(last.df, 1)
          /\ rows[j]["created_at"] < now
          /\ rows[j]["updated_at"] = now
          /\ rows[j]["created_at"] # last.df.rows[1]["created_at"]
          /\ rows[j]["updated_at"] # last.df.rows[1]["updated_at"]

====
